---- MODULE Spec2Model ----
(***************************************************************************)
(* Model of influx-converter: the batched extract-transform-load pipeline  *)
(* of RunOnTable (count query, data query, batching loop, Convert and      *)
(* WritePoints per batch), run by main on the "inside" table and then on   *)
(* the "outside" table.                                                    *)
(*                                                                         *)
(* Go slices are 0-based, TLA+ sequences 1-based: Go index k is k+1 here.  *)
(* A float64 is held in tenths (Float64 of the literal 3.5 is 35), a       *)
(* time.Time as its seconds and nanoseconds.                               *)
(***************************************************************************)
EXTENDS Integers, Sequences, FiniteSets, TLC

\* Largest number of rows the source store returns for one data query.
MaxRows == 4
\* Largest value of the --batch-size flag (0 included).
MaxBatch == 2
\* Iterations after which the batching loop is no longer followed; only a
\* loop that does not shrink the remaining rows gets this far.
MaxChunks == MaxRows + 1

\* The two tables main runs on, in order.
NumTables == 2

(***************************************************************************)
(* Package-level values                                                    *)
(***************************************************************************)
defaultTags ==
    [job |-> "pronestheus",
     instance |-> "pronestheus:2112",
     name |-> "Living-Room",
     id |-> "JyHyG8n7kBXBV0_KHqQhNsmUnpmzy3o_"]

\* Column names the data queries select (column 0 is the time column).
insideQuery ==
    <<"time", "nest_leaf", "nest_humidity", "nest_heating",
      "nest_target_temp", "nest_current_temp">>

outsideQuery ==
    <<"time", "nest_weather_humidity", "nest_weather_pressure",
      "nest_weather_temp">>

\* Columns the count queries return: time and the count.
insideCountQuery == <<"time", "count">>

outsideCountQuery == <<"time", "count">>

\* main: RunOnTable(insideQuery, ...) then RunOnTable(outsideQuery, ...).
TableQuery(t) == IF t = 1 THEN insideQuery ELSE outsideQuery

TableCountQuery(t) == IF t = 1 THEN insideCountQuery ELSE outsideCountQuery

(***************************************************************************)
(* Values of a row: interface{} holding a json.Number or something else.   *)
(* A json.Number is its literal: integer part, first fractional digit      *)
(* (0 when the literal has no fraction) and whether it is too large for    *)
(* a float64 (such as 1e400).                                              *)
(***************************************************************************)
JNumber(w, f, big) == [type |-> "Number", int |-> w, frac |-> f, big |-> big]

JString == [type |-> "string", int |-> 0, frac |-> 0, big |-> FALSE]

\* json.Number.Int64: strconv.ParseInt of the literal, base 10.
Int64(v) ==
    IF v.frac = 0 /\ ~v.big
    THEN [ok |-> TRUE, val |-> v.int]
    ELSE [ok |-> FALSE, val |-> 0]

\* json.Number.Float64: strconv.ParseFloat of the literal (value in tenths).
Float64(v) ==
    IF ~v.big
    THEN [ok |-> TRUE, val |-> v.int * 10 + v.frac]
    ELSE [ok |-> FALSE, val |-> 0]

\* time.Unix(sec, 0)
TimeUnix(sec) == [sec |-> sec, nsec |-> 0]

(***************************************************************************)
(* newPoint: the tags are __name__ and then every default tag.             *)
(***************************************************************************)
newPointWrongName(name, timestamp, value) ==
    [name |-> name,
     tags |-> [k \in {"__name__"} \cup DOMAIN defaultTags |->
                  IF k \in DOMAIN defaultTags THEN defaultTags[k] ELSE "value"],
     value |-> value,
     time |-> timestamp]

newPoint(name, timestamp, value) ==
    [name |-> name,
     tags |-> [k \in {"__name__"} \cup DOMAIN defaultTags |->
                  IF k \in DOMAIN defaultTags THEN defaultTags[k] ELSE name],
     value |-> value,
     time |-> timestamp]

(***************************************************************************)
(* Convert                                                                 *)
(***************************************************************************)
\* return nil, err
ConvertErr(points) == [out |-> "err", points |-> <<>>]

\* A failed type assertion or an index out of range: the process panics.
ConvertPanic == [out |-> "panic", points |-> <<>>]

\* The inner loop: for i := 1; i < len(columns); i++ (i is 1-based here).
RECURSIVE ConvertValues(_, _, _, _, _)
ConvertValues(columns, values, timestamp, i, points) ==
    IF i > Len(columns) THEN [out |-> "ok", points |-> points]
    ELSE IF i > Len(values) THEN ConvertPanic
    ELSE IF values[i].type # "Number" THEN ConvertPanic
    ELSE IF ~Float64(values[i]).ok THEN ConvertErr(points)
    ELSE ConvertValues(columns, values, timestamp, i + 1,
            Append(points,
                   newPoint(columns[i], timestamp, Float64(values[i]).val)))

\* The outer loop: for _, values := range batch (r is the 1-based row).
RECURSIVE ConvertRows(_, _, _, _)
ConvertRows(columns, batch, r, points) ==
    IF r > Len(batch) THEN [out |-> "ok", points |-> points]
    ELSE LET values == batch[r] IN
         IF Len(values) < 1 THEN ConvertPanic
         ELSE IF values[1].type # "Number" THEN ConvertPanic
         ELSE IF ~Int64(values[1]).ok THEN ConvertErr(points)
         ELSE LET timestamp == TimeUnix(Int64(values[1]).val)
                  row == ConvertValues(columns, values, timestamp, 2, points)
              IN IF row.out # "ok" THEN row
                 ELSE ConvertRows(columns, batch, r + 1, row.points)

\* Convert with the range starting at the second row.
ConvertSkipFirstRow(columns, batch) == ConvertRows(columns, batch, 2, <<>>)

Convert(columns, batch) == ConvertRows(columns, batch, 1, <<>>)

(***************************************************************************)
(* Query                                                                   *)
(***************************************************************************)
\* models.Row{}
EmptyRow == [Columns |-> <<>>, Values |-> <<>>]

\* No response held (the local of Query outside a call).
NoResponse == [err |-> FALSE, Err |-> FALSE, Results |-> <<>>]

\* The checks of Query on the response of SourceClient.Query.
Query(response) ==
    IF response.err THEN [out |-> "err", result |-> EmptyRow]
    ELSE IF response.Err THEN [out |-> "err", result |-> EmptyRow]
    ELSE IF Len(response.Results) = 0
         THEN [out |-> "panic", result |-> EmptyRow]
    ELSE IF Len(response.Results) # 1 /\ Len(response.Results[1].Series) # 1
         THEN [out |-> "fatal", result |-> EmptyRow]
    ELSE IF Len(response.Results[1].Series) = 0
         THEN [out |-> "panic", result |-> EmptyRow]
    ELSE [out |-> "ok", result |-> response.Results[1].Series[1]]

(***************************************************************************)
(* The batching loop of RunOnTable                                         *)
(***************************************************************************)
\* The loop condition: *batchSize < len(result.Values)
BatchLoopCondOrEqual(B, values) == B <= Len(values)

BatchLoopCond(B, values) == B < Len(values)

\* result.Values[0:*batchSize:*batchSize]
BatchHeadShort(values, B) == SubSeq(values, 1, B - 1)

BatchHead(values, B) == SubSeq(values, 1, B)

\* result.Values[*batchSize:]
BatchRestAll(values, B) == values

BatchRest(values, B) == SubSeq(values, B + 1, Len(values))

(***************************************************************************)
(* Responses of the source store to SourceClient.Query                     *)
(***************************************************************************)
\* A row as the store holds it: an integer epoch-seconds timestamp, then
\* one number per value column.
StoredValue(r, c) ==
    IF c = 1 THEN JNumber(100 + r, 0, FALSE)
    ELSE JNumber(r + c, IF (r + c) % 2 = 0 THEN 0 ELSE 5, FALSE)

\* What a response can hold in place of a stored value.
OddValue(kind) ==
    IF kind = "frac" THEN JNumber(7, 5, FALSE)
    ELSE IF kind = "big" THEN JNumber(1, 0, TRUE)
    ELSE JString

\* At most one value of a response is odd: spot <<row, column, kind>>.
OddSpots(N, n) ==
    {<<0, 0, "none">>} \cup ((1..N) \X (1..n) \X {"frac", "big", "string"})

ResponseRow(r, n, spot) ==
    [c \in 1..n |->
        IF spot[1] = r /\ spot[2] = c THEN OddValue(spot[3])
        ELSE StoredValue(r, c)]

\* The series a data query can return: the first n selected columns, N rows.
DataSeries(t) ==
    UNION { UNION { { [Columns |-> SubSeq(TableQuery(t), 1, n),
                       Values |-> [r \in 1..N |-> ResponseRow(r, n, spot)]]
                      : spot \in OddSpots(N, n) }
                    : n \in 1..Len(TableQuery(t)) }
            : N \in 0..MaxRows }

\* The series a count query can return: no row, or one row <<time, count>>.
CountSeries(t) ==
    { [Columns |-> TableCountQuery(t), Values |-> v]
      : v \in {<<>>} \cup { << <<JNumber(0, 0, FALSE), JNumber(c, 0, FALSE)>> >>
                            : c \in {0, MaxRows} } }

\* client.Response with nres results, the first holding nser series.
ResponseOf(s, nres, nser) ==
    [err |-> FALSE, Err |-> FALSE,
     Results |-> [k \in 1..nres |->
                    [Series |-> IF k = 1
                                THEN [j \in 1..nser |->
                                        IF j = 1 THEN s ELSE EmptyRow]
                                ELSE <<EmptyRow>>]]]

\* Everything SourceClient.Query can hand back: a transport error, an error
\* payload, or a response of any shape.
Responses(series) ==
    { [err |-> TRUE, Err |-> FALSE, Results |-> <<>>],
      [err |-> FALSE, Err |-> TRUE, Results |-> <<>>] }
    \cup { ResponseOf(s, shape[1], shape[2])
           : s \in series, shape \in (0..2) \X (0..2) }

(***************************************************************************)
(* State                                                                   *)
(***************************************************************************)
VARIABLES
    batchSize,      \* *batchSize, the --batch-size flag
    tbl,            \* which RunOnTable call of main is running
    pc,             \* position in main / RunOnTable / Query
    exit,           \* "running", or how the process ended
    response,       \* Query: the response of SourceClient.Query
    countedQuery,   \* RunOnTable: result.Values[0][1] of the count query
    countedResult,  \* RunOnTable: len(result.Values) of the data query
    result,         \* RunOnTable: result (Values is resliced by the loop)
    batches,        \* RunOnTable: batches
    i,              \* RunOnTable: index of the batch loop (1-based)
    points,         \* RunOnTable: points returned by Convert
    fetched,        \* the rows the data query of this call returned
    log             \* the store operations issued so far, in order

vars == <<batchSize, tbl, pc, exit, response, countedQuery, countedResult,
          result, batches, i, points, fetched, log>>

\* A nil interface value.
Nil == [type |-> "nil", int |-> 0, frac |-> 0, big |-> FALSE]

Op(t, op, idx, n, out) ==
    [tbl |-> t, op |-> op, idx |-> idx, n |-> n, out |-> out]

\* The last operation of the log gets its outcome.
Finish(l, out) == [l EXCEPT ![Len(l)].out = out]

\* log.Fatal exits the process; a panic aborts it.
ExitOf(out) == IF out = "panic" THEN "panic" ELSE "fatal"

Init ==
    /\ batchSize \in 0..MaxBatch
    /\ tbl = 1
    /\ pc = "CountQuery"
    /\ exit = "running"
    /\ response = NoResponse
    /\ countedQuery = Nil
    /\ countedResult = 0
    /\ result = EmptyRow
    /\ batches = <<>>
    /\ i = 0
    /\ points = <<>>
    /\ fetched = <<>>
    /\ log = <<>>

(***************************************************************************)
(* RunOnTable                                                              *)
(***************************************************************************)
\* c.Query(*sourceDB, countQuery): the call of SourceClient.Query.
CountQuery ==
    /\ pc = "CountQuery"
    /\ \E r \in Responses(CountSeries(tbl)) : response' = r
    /\ pc' = "CountResp"
    /\ log' = Append(log, Op(tbl, "count", 0, 0, "called"))
    /\ UNCHANGED <<batchSize, tbl, exit, countedQuery, countedResult, result,
                   batches, i, points, fetched>>

\* Query checks the response and returns; RunOnTable reads the count.
CountReturn ==
    /\ pc = "CountResp"
    /\ LET q == Query(response) IN
        /\ response' = NoResponse
        /\ log' = Finish(log, q.out)
        /\ IF q.out # "ok"
           THEN /\ pc' = "Exited"
                /\ exit' = ExitOf(q.out)
                /\ UNCHANGED <<result, countedQuery>>
           ELSE IF Len(q.result.Values) = 0 \/ Len(q.result.Values[1]) < 2
           THEN /\ pc' = "Exited"
                /\ exit' = "panic"
                /\ result' = q.result
                /\ UNCHANGED countedQuery
           ELSE /\ pc' = "DataQuery"
                /\ result' = q.result
                /\ countedQuery' = q.result.Values[1][2]
                /\ UNCHANGED exit
    /\ UNCHANGED <<batchSize, tbl, countedResult, batches, i, points, fetched>>

\* c.Query(*sourceDB, query): the call of SourceClient.Query.
DataQuery ==
    /\ pc = "DataQuery"
    /\ \E r \in Responses(DataSeries(tbl)) : response' = r
    /\ pc' = "DataResp"
    /\ log' = Append(log, Op(tbl, "data", 0, 0, "called"))
    /\ UNCHANGED <<batchSize, tbl, exit, countedQuery, countedResult, result,
                   batches, i, points, fetched>>

\* Query checks the response and returns; RunOnTable counts the rows.
DataReturn ==
    /\ pc = "DataResp"
    /\ LET q == Query(response) IN
        /\ response' = NoResponse
        /\ log' = Finish(log, q.out)
        /\ IF q.out # "ok"
           THEN /\ pc' = "Exited"
                /\ exit' = ExitOf(q.out)
                /\ UNCHANGED <<result, countedResult, fetched>>
           ELSE /\ pc' = "Batching"
                /\ result' = q.result
                /\ countedResult' = Len(q.result.Values)
                /\ fetched' = q.result.Values
                /\ UNCHANGED exit
    /\ UNCHANGED <<batchSize, tbl, countedQuery, batches, i, points>>

\* One iteration of: for *batchSize < len(result.Values) { ... }
BatchLoop ==
    /\ pc = "Batching"
    /\ BatchLoopCond(batchSize, result.Values)
    /\ Len(batches) < MaxChunks
    /\ result' = [result EXCEPT !.Values = BatchRest(result.Values, batchSize)]
    /\ batches' = Append(batches, BatchHead(result.Values, batchSize))
    /\ UNCHANGED <<batchSize, tbl, pc, exit, response, countedQuery,
                   countedResult, i, points, fetched, log>>

\* The loop ends: batches = append(batches, result.Values); range starts.
BatchAppend ==
    /\ pc = "Batching"
    /\ ~BatchLoopCond(batchSize, result.Values)
    /\ batches' = Append(batches, result.Values)
    /\ i' = 1
    /\ pc' = "Convert"
    /\ UNCHANGED <<batchSize, tbl, exit, response, countedQuery,
                   countedResult, result, points, fetched, log>>

\* points, err := c.Convert(result.Columns, batch)
ConvertBatch ==
    /\ pc = "Convert"
    /\ LET c == Convert(result.Columns, batches[i]) IN
        /\ points' = c.points
        /\ log' = Append(log, Op(tbl, "convert", i, Len(batches[i]), c.out))
        /\ IF c.out = "ok"
           THEN pc' = "Write" /\ UNCHANGED exit
           ELSE pc' = "Exited" /\ exit' = ExitOf(c.out)
    /\ UNCHANGED <<batchSize, tbl, response, countedQuery, countedResult,
                   result, batches, i, fetched>>

\* Where RunOnTable goes after WritePoints returned err for batch k of nb.
AfterWriteIgnoreErr(err, k, nb) ==
    IF k < nb THEN [pc |-> "Convert", exit |-> "running", i |-> k + 1]
    ELSE [pc |-> "Return", exit |-> "running", i |-> k]

AfterWriteSameBatch(err, k, nb) ==
    IF err THEN [pc |-> "Exited", exit |-> "fatal", i |-> k]
    ELSE IF k < nb THEN [pc |-> "Write", exit |-> "running", i |-> k + 1]
    ELSE [pc |-> "Return", exit |-> "running", i |-> k]

AfterWrite(err, k, nb) ==
    IF err THEN [pc |-> "Exited", exit |-> "fatal", i |-> k]
    ELSE IF k < nb THEN [pc |-> "Convert", exit |-> "running", i |-> k + 1]
    ELSE [pc |-> "Return", exit |-> "running", i |-> k]

\* err = c.WritePoints(points): TargetClient.Write succeeds or fails.
WritePoints ==
    /\ pc = "Write"
    /\ \E err \in BOOLEAN :
        LET next == AfterWrite(err, i, Len(batches)) IN
        /\ log' = Append(log, Op(tbl, "write", i, Len(points),
                                 IF err THEN "err" ELSE "ok"))
        /\ pc' = next.pc
        /\ exit' = next.exit
        /\ i' = next.i
    /\ UNCHANGED <<batchSize, tbl, response, countedQuery, countedResult,
                   result, batches, points, fetched>>

\* RunOnTable returns to main: the next RunOnTable call, or the end of main.
Return ==
    /\ pc = "Return"
    /\ IF tbl < NumTables
       THEN /\ tbl' = tbl + 1
            /\ pc' = "CountQuery"
            /\ UNCHANGED exit
       ELSE /\ pc' = "Exited"
            /\ exit' = "ok"
            /\ UNCHANGED tbl
    /\ countedQuery' = Nil
    /\ countedResult' = 0
    /\ result' = EmptyRow
    /\ batches' = <<>>
    /\ i' = 0
    /\ points' = <<>>
    /\ fetched' = <<>>
    /\ UNCHANGED <<batchSize, response, log>>

Next ==
    \/ CountQuery
    \/ CountReturn
    \/ DataQuery
    \/ DataReturn
    \/ BatchLoop
    \/ BatchAppend
    \/ ConvertBatch
    \/ WritePoints
    \/ Return

Spec == Init /\ [][Next]_vars

(***************************************************************************)
(* The batching loop on its own: RunOnTable of the first table right after *)
(* the data query returned N rows of well-formed values, for every N,      *)
(* every number of columns and every batch size.                           *)
(***************************************************************************)
LoopInit ==
    /\ batchSize \in 0..MaxBatch
    /\ tbl = 1
    /\ pc = "Batching"
    /\ exit = "running"
    /\ response = NoResponse
    /\ countedQuery = JNumber(0, 0, FALSE)
    /\ \E s \in DataSeries(1) :
          /\ \A r \in 1..Len(s.Values) :
                \A c \in 1..Len(s.Columns) : s.Values[r][c] = StoredValue(r, c)
          /\ result = s
          /\ countedResult = Len(s.Values)
          /\ fetched = s.Values
    /\ batches = <<>>
    /\ i = 0
    /\ points = <<>>
    /\ log = <<Op(1, "count", 0, 0, "ok"), Op(1, "data", 0, 0, "ok")>>

LoopNext ==
    \/ BatchLoop
    \/ BatchAppend

\* The process is sequential: whenever the loop can take a step it does.
LoopSpec == LoopInit /\ [][LoopNext]_vars /\ WF_vars(LoopNext)

(***************************************************************************)
(* Vocabulary of the properties                                            *)
(***************************************************************************)
\* The batching loop of the running RunOnTable call has ended.
Batched == pc \in {"Convert", "Write", "Return"}

RECURSIVE Flatten(_)
Flatten(chunks) ==
    IF chunks = <<>> THEN <<>> ELSE Head(chunks) \o Flatten(Tail(chunks))

RECURSIVE SumN(_)
SumN(ops) == IF ops = <<>> THEN 0 ELSE Head(ops).n + SumN(Tail(ops))

\* The operations of table t of kind op, in the order they were issued.
OpsOf(t, op) ==
    LET Is(e) == e.tbl = t /\ e.op = op IN SelectSeq(log, Is)

LastOp == log[Len(log)]

\* A value that decodes as a timestamp: a json.Number integer literal.
NumericTime(v) == v.type = "Number" /\ v.frac = 0 /\ ~v.big

\* A value that decodes as a float.
NumericValue(v) == v.type = "Number" /\ ~v.big

ValidRow(values, n) ==
    /\ Len(values) = n
    /\ NumericTime(values[1])
    /\ \A c \in 2..n : NumericValue(values[c])

ValidBatch(batch, n) == \A r \in 1..Len(batch) : ValidRow(batch[r], n)

\* The point the Row Transformer owes for column c (1-based, c >= 2) of a row.
ExpectedPoint(columns, values, c) ==
    [name |-> columns[c],
     tags |-> [k \in {"job", "instance", "name", "id", "__name__"} |->
                 IF k = "__name__" THEN columns[c] ELSE defaultTags[k]],
     value |-> values[c].int * 10 + values[c].frac,
     time |-> [sec |-> values[1].int, nsec |-> 0]]

\* Convert has just run on batch i of the running call.
Converted == Len(log) > 0 /\ LastOp.op = "convert"

(***************************************************************************)
(* C1: for batch size B >= 1 the chunks of the batching loop, concatenated *)
(* in order, are the fetched rows; every chunk has at most B rows; at most *)
(* one chunk has fewer than B rows.                                        *)
(***************************************************************************)
C1_ChunksPartitionRows ==
    (Batched /\ batchSize >= 1) =>
        /\ Flatten(batches) = fetched
        /\ \A k \in 1..Len(batches) : Len(batches[k]) <= batchSize
        /\ Cardinality({k \in 1..Len(batches) :
                            Len(batches[k]) < batchSize}) <= 1

C1_Witness ==
    /\ pc = "Convert"
    /\ batchSize = 2
    /\ Len(fetched) = 3
    /\ Len(batches) = 2
    /\ Len(batches[2]) = 1

(***************************************************************************)
(* C2: when the data query returns 0 rows, no batch is non-empty and       *)
(* WritePoints is never invoked for that table.                            *)
(***************************************************************************)
C2_NoWriteForEmptyTable ==
    (Batched /\ batchSize >= 1 /\ countedResult = 0) =>
        /\ \A k \in 1..Len(batches) : batches[k] = <<>>
        /\ OpsOf(tbl, "write") = <<>>

(***************************************************************************)
(* C3: Query returns a row set only when the response has exactly one      *)
(* result holding exactly one series; with zero series in the first        *)
(* result, or a number of results other than one, it fails.                *)
(***************************************************************************)
C3_QueryRejectsOtherShapes ==
    (pc \in {"CountResp", "DataResp"} /\ ~response.err /\ ~response.Err) =>
        (Query(response).out = "ok" =>
            /\ Len(response.Results) = 1
            /\ Len(response.Results[1].Series) = 1)

(***************************************************************************)
(* C4: on a batch of valid rows Convert succeeds and returns n-1 points    *)
(* per row, by row and then by column 1..n-1; the point of row r and       *)
(* column i has name columns[i], the row's element 0 as whole epoch        *)
(* seconds, the row's element i as value, and the default tags plus        *)
(* __name__ = columns[i]. Column 0 yields no point.                        *)
(***************************************************************************)
C4_ConvertPoints ==
    LET columns == result.Columns
        n == Len(columns)
        batch == batches[i]
    IN (Converted /\ ValidBatch(batch, n)) =>
        /\ LastOp.out = "ok"
        /\ pc = "Write"
        /\ Len(points) = Len(batch) * (n - 1)
        /\ \A r \in 1..Len(batch) : \A c \in 2..n :
              points[(r - 1) * (n - 1) + (c - 1)]
                  = ExpectedPoint(columns, batch[r], c)
        /\ \A k \in 1..Len(points) : points[k].name # columns[1]

C4_Witness ==
    /\ Converted
    /\ pc = "Write"
    /\ Len(result.Columns) = 4
    /\ Len(batches[i]) = 2
    /\ Len(points) = 6

(***************************************************************************)
(* C5: if some element of some row of the batch is not numeric, Convert    *)
(* fails with a decode error (a returned error) and hands back no point at *)
(* all, none for the rows before the bad one either, and nothing is        *)
(* written for that batch.                                                 *)
(***************************************************************************)
C5_DecodeErrorNoPoints ==
    (Converted /\ ~ValidBatch(batches[i], Len(result.Columns))) =>
        /\ LastOp.out = "err"
        /\ points = <<>>
        /\ \A k \in 1..Len(log) :
              ~(log[k].tbl = tbl /\ log[k].op = "write" /\ log[k].idx = i)

\* What does hold of a batch that does not decode: Convert ends in a
\* returned error or in a panic, no point comes back, the process ends and
\* nothing is written for the batch.
ConvertFailureNoPoints ==
    (Converted /\ ~ValidBatch(batches[i], Len(result.Columns))) =>
        /\ LastOp.out \in {"err", "panic"}
        /\ points = <<>>
        /\ pc = "Exited"
        /\ exit \in {"fatal", "panic"}
        /\ \A k \in 1..Len(log) :
              ~(log[k].tbl = tbl /\ log[k].op = "write" /\ log[k].idx = i)

(***************************************************************************)
(* C6: fail fast. An operation that failed (query, Convert or WritePoints) *)
(* is the last one issued: it is not retried, nothing follows it, and the  *)
(* process has ended abnormally.                                           *)
(***************************************************************************)
C6_FailFast ==
    \A k \in 1..Len(log) :
        log[k].out \notin {"ok", "called"} =>
            /\ k = Len(log)
            /\ pc = "Exited"
            /\ exit \in {"fatal", "panic"}

C6_Witness ==
    /\ pc = "Exited"
    /\ Len(batches) = 3
    /\ LastOp.op = "write"
    /\ LastOp.idx = 2
    /\ LastOp.out = "err"

(***************************************************************************)
(* C7: a RunOnTable call that succeeds on N >= 1 rows of C value columns   *)
(* with batch size B >= 1 has called WritePoints ceil(N/B) times, the k-th *)
(* time with C times the size of the k-th chunk, N*C points in all.        *)
(***************************************************************************)
C7_WriteCounts ==
    (pc = "Return" /\ countedResult >= 1 /\ batchSize >= 1) =>
        LET N == countedResult
            B == batchSize
            C == Len(result.Columns) - 1
            K == (N + B - 1) \div B
            W == OpsOf(tbl, "write")
        IN /\ Len(W) = K
           /\ \A k \in 1..Len(W) :
                 /\ W[k].idx = k
                 /\ W[k].out = "ok"
                 /\ W[k].n = C * (IF k < K THEN B ELSE N - (K - 1) * B)
           /\ SumN(W) = N * C

\* The instance N = 3, C = 5, B = 2: two writes, of 10 and 5 points.
C7_Witness ==
    /\ pc = "Return"
    /\ tbl = 1
    /\ countedResult = 3
    /\ batchSize = 2
    /\ Len(result.Columns) = 6
    /\ Len(OpsOf(1, "write")) = 2
    /\ OpsOf(1, "write")[1].n = 10
    /\ OpsOf(1, "write")[2].n = 5
    /\ SumN(OpsOf(1, "write")) = 15

(***************************************************************************)
(* C8 as stated: when the number of rows is a non-zero exact multiple of   *)
(* the batch size B, the chunk list ends with a chunk of length 0.         *)
(***************************************************************************)
C8_TrailingEmptyChunk ==
    (Batched /\ batchSize >= 1 /\ Len(fetched) > 0
        /\ Len(fetched) % batchSize = 0) =>
        Len(batches[Len(batches)]) = 0

(***************************************************************************)
(* C8 amended: when the number of rows is a non-zero exact multiple of B,  *)
(* the loop stops with exactly B rows left and the append after the loop   *)
(* adds them as a full last chunk: N/B chunks, each of length B, none      *)
(* empty.                                                                  *)
(***************************************************************************)
C8_ExactMultipleFullChunks ==
    (Batched /\ batchSize >= 1 /\ Len(fetched) > 0
        /\ Len(fetched) % batchSize = 0) =>
        /\ Len(batches) = Len(fetched) \div batchSize
        /\ \A k \in 1..Len(batches) : Len(batches[k]) = batchSize

C8_Witness ==
    /\ pc = "Convert"
    /\ batchSize = 2
    /\ Len(fetched) = 4
    /\ Len(batches) = 2
    /\ Len(batches[2]) = 2

(***************************************************************************)
(* C9: the operations are issued one at a time, in the order count query,  *)
(* data query, Convert(1), Write(1), Convert(2), Write(2), ... of the      *)
(* first table and then the same of the second table.                      *)
(***************************************************************************)
C9_StrictSequence ==
    /\ Len(log) > 0 => (log[1].tbl = 1 /\ log[1].op = "count")
    /\ \A k \in 1..Len(log) : log[k].out = "called" => k = Len(log)
    /\ \A k \in 1..(Len(log) - 1) :
          LET a == log[k]
              b == log[k + 1]
          IN /\ a.op = "count" =>
                   (b.op = "data" /\ b.tbl = a.tbl)
             /\ a.op = "data" =>
                   (b.op = "convert" /\ b.idx = 1 /\ b.tbl = a.tbl)
             /\ a.op = "convert" =>
                   (b.op = "write" /\ b.idx = a.idx /\ b.tbl = a.tbl)
             /\ a.op = "write" =>
                   \/ (b.op = "convert" /\ b.idx = a.idx + 1 /\ b.tbl = a.tbl)
                   \/ (b.op = "count" /\ b.tbl = a.tbl + 1)

C9_Witness ==
    /\ tbl = 2
    /\ Len(OpsOf(1, "write")) >= 2
    /\ Len(OpsOf(2, "write")) >= 2

(***************************************************************************)
(* C10: for B >= 1 the batching loop ends, each iteration taking exactly B *)
(* rows off the remaining rows while B is less than their number; for      *)
(* B = 0 and at least one row the loop condition stays true, the remaining *)
(* rows never shrink, every chunk appended is empty, and the call never    *)
(* reaches Convert or WritePoints.                                         *)
(***************************************************************************)
C10_BatchingTerminates ==
    /\ (pc = "Batching" /\ batchSize >= 1) ~> (pc # "Batching")
    /\ [][(pc = "Batching" /\ pc' = "Batching") =>
            /\ batchSize < Len(result.Values)
            /\ Len(result'.Values) = Len(result.Values) - batchSize]_vars
    /\ []((batchSize = 0 /\ Len(fetched) > 0) =>
            /\ pc = "Batching"
            /\ batchSize < Len(result.Values)
            /\ result.Values = fetched
            /\ \A k \in 1..Len(batches) : batches[k] = <<>>)

C10_Witness ==
    /\ pc = "Convert"
    /\ batchSize = 1
    /\ Len(fetched) = 3
    /\ Len(batches) = 3

====
